---- MODULE Spec2Model ----
(***************************************************************************)
(* Model of the BayesNetworks inference engine:                            *)
(*   BayesNetwork/distributions.py  DiscreteDistribution,                  *)
(*                                  ConditionalDistribution                *)
(*   BayesNetwork/bayesNetwork.py   Node, BayesNetwork (add_nodes,         *)
(*                                  add_edge, preprocess, gibbs)           *)
(* Python `assert` statements are modelled as executed (the interpreter's  *)
(* default): a failed assert ends the call with "AssertionError".          *)
(* Probabilities are exact fractions k/Den.  Every random draw             *)
(* (random.choice, numpy.random.choice) is a nondeterministic choice among *)
(* the outcomes of non-zero probability.                                   *)
(***************************************************************************)
EXTENDS Integers, Sequences, FiniteSets, TLC

\* ---------------------------------------------------------------- bounds
\* add_nodes is called with lists of at most MaxList nodes
MaxList == 2
\* add_edge is not called once MaxEdges child links are stored
MaxEdges == 3
\* gibbs is called with at most MaxEvidence evidence entries
MaxEvidence == 2
\* gibbs is called with n in 0..MaxIter
MaxIter == 2
\* denominator of the probabilities: the weight k stands for k/Den
Den == 4

None == "None"

Range(s) == {s[i] : i \in 1..Len(s)}

\* x[-1] and x[-2] of a Python list
Last(x) == x[Len(x)]
SecondLast(x) == x[Len(x) - 1]

RECURSIVE Sum(_)
Sum(s) == IF s = <<>> THEN 0 ELSE Head(s) + Sum(Tail(s))

RECURSIVE SeqsOver(_, _)
\* the lists of length at most k over S
SeqsOver(S, k) ==
    IF k = 0 THEN {<<>>}
    ELSE LET shorter == SeqsOver(S, k - 1)
         IN  shorter \cup {Append(s, x) : s \in shorter, x \in S}

\* ------------------------------------------------ the caller's distributions
DiscreteDistribution(d) == [kind |-> "discrete", distribution |-> d]

ConditionalDistribution(d) ==
    [kind |-> "conditional", distribution |-> d,
     num_of_dependencies |-> Len(d[1]) - 2]

\* main.py's tables, cut down to two outcomes per variable
a_dist == DiscreteDistribution(<< <<"a0", 1>>, <<"a1", 3>> >>)
b_dist == DiscreteDistribution(<< <<"b0", 4>> >>)
c_dist == DiscreteDistribution(<< <<"c0", 4>> >>)

\* one parent column (main.py test_dist)
one_dist == ConditionalDistribution(<<
    <<"a0", "t0", 3>>, <<"a0", "t1", 1>>,
    <<"a1", "t0", 0>>, <<"a1", "t1", 4>> >>)

\* one parent column, the rows of a1 summing to 3/4
bad_dist == ConditionalDistribution(<<
    <<"a0", "t0", 3>>, <<"a0", "t1", 1>>,
    <<"a1", "t0", 0>>, <<"a1", "t1", 3>> >>)

\* two parent columns (main.py hospitalization_dist)
two_dist == ConditionalDistribution(<<
    <<"a0", "b0", "h0", 2>>, <<"a0", "b0", "h1", 2>>,
    <<"a1", "b0", "h0", 0>>, <<"a1", "b0", "h1", 4>> >>)

\* three parent columns (main.py sick_dist)
three_dist == ConditionalDistribution(<<
    <<"a0", "b0", "c0", "s0", 3>>, <<"a0", "b0", "c0", "s1", 1>>,
    <<"a1", "b0", "c0", "s0", 0>>, <<"a1", "b0", "c0", "s1", 4>> >>)

\* the sets of Node objects a caller constructs, each node name with its
\* distribution
Constructions == [
    causes   |-> [A |-> a_dist, B |-> b_dist],
    chain    |-> [A |-> a_dist, T |-> one_dist],
    bad      |-> [A |-> a_dist, T |-> bad_dist],
    collider |-> [A |-> a_dist, B |-> b_dist, H |-> two_dist],
    short    |-> [A |-> a_dist, B |-> b_dist, S |-> three_dist],
    illness  |-> [A |-> a_dist, B |-> b_dist, C |-> c_dist, S |-> three_dist] ]

VARIABLES
    constructed,       \* which of the Constructions the caller has made
    nodes,             \* BayesNetwork.nodes: the registered names, in insertion order
    parents,           \* Node.parents (keys)
    parents_order,     \* Node.parents_order
    children,          \* Node.children (keys)
    markov_blanket,    \* Node.markov_blanket (keys)
    _values,           \* Distribution._values ({} while None)
    _is_preprocessed,  \* Distribution._is_preprocessed
    conditional_distribution_lookup,  \* ConditionalDistribution's lookup
    counter,           \* Node.counter: value -> count (0: key absent)
    evidence,          \* Node.evidence
    static_value,      \* Node.static_value
    pc,                \* "idle": between calls; "loop": in the Monte Carlo loop
                       \* of gibbs; "done": a call has just returned or raised
    call,              \* the call in progress or just done, with its arguments
    err,               \* its outcome: "ok", or the exception raised
    i,                 \* gibbs: the number of loop iterations completed
    nodes_without_evidence,  \* gibbs: the local list of that name
    node,              \* gibbs: the node chosen by the last iteration (None before)
    results            \* gibbs: the returned dictionary

links == <<parents, parents_order, children, markov_blanket>>
structure == <<nodes, links>>
dists == <<_values, _is_preprocessed, conditional_distribution_lookup>>
state == <<counter, evidence, static_value>>
frame == <<i, nodes_without_evidence, node, results>>
vars == <<constructed, structure, dists, state, pc, call, err, frame>>

\* Node.distribution of every constructed Node, by name
distribution == Constructions[constructed]

Names == DOMAIN distribution

is_dependent(name) == distribution[name].kind = "conditional"

\* all outcome labels of a constructed node's table
Labels(name) ==
    LET d == distribution[name].distribution
    IN  IF is_dependent(name) THEN {SecondLast(d[k]) : k \in 1..Len(d)}
        ELSE {d[k][1] : k \in 1..Len(d)}

NoCall == [op |-> "none"]

\* Node.__init__ for every constructed node, and no call made yet
Constructed ==
    /\ parents = [x \in Names |-> {}]
    /\ parents_order = [x \in Names |-> <<>>]
    /\ children = [x \in Names |-> {}]
    /\ markov_blanket = [x \in Names |-> {}]
    /\ _values = [x \in Names |-> {}]
    /\ _is_preprocessed = [x \in Names |-> FALSE]
    /\ conditional_distribution_lookup = [x \in Names |-> {}]
    /\ counter = [x \in Names |-> [v \in Labels(x) |-> 0]]
    /\ evidence = [x \in Names |-> None]
    /\ static_value = [x \in Names |-> None]
    /\ pc = "idle"
    /\ call = NoCall
    /\ err = "ok"
    /\ i = 0
    /\ nodes_without_evidence = <<>>
    /\ node = None
    /\ results = <<>>

\* BayesNetwork.__init__: an empty network and the caller's nodes
Init ==
    /\ constructed \in {"chain", "bad", "collider", "short", "illness"}
    /\ nodes = <<>>
    /\ Constructed

\* the caller takes the outcome of the call just done and goes on
Continue ==
    /\ pc = "done"
    /\ pc' = "idle"
    /\ call' = NoCall
    /\ err' = "ok"
    /\ i' = 0
    /\ nodes_without_evidence' = <<>>
    /\ node' = None
    /\ results' = <<>>
    /\ UNCHANGED <<constructed, structure, dists, state>>

\* ------------------------------------------------------ BayesNetwork.add_nodes
RECURSIVE add_nodes(_, _)
\* the loop of add_nodes over list_of_nodes: the names registered before the
\* first duplicate stay registered
add_nodes(registered, list_of_nodes) ==
    IF list_of_nodes = <<>> THEN [nodes |-> registered, err |-> "ok"]
    ELSE IF Head(list_of_nodes) \notin Range(registered)
         THEN add_nodes(Append(registered, Head(list_of_nodes)), Tail(list_of_nodes))
         ELSE [nodes |-> registered, err |-> "ValueError: Nodes names must be unique"]

AddNodes ==
    /\ pc = "idle"
    /\ \E list_of_nodes \in SeqsOver(Names, MaxList) :
         LET r == add_nodes(nodes, list_of_nodes)
         IN  /\ nodes' = r.nodes
             /\ err' = r.err
             /\ call' = [op |-> "add_nodes"]
    /\ pc' = "done"
    /\ UNCHANGED <<constructed, links, dists, state, frame>>

\* ------------------------------------------------------- BayesNetwork.add_edge
\* add_child without its test that the child is already a parent
add_child_unchecked(st, self, child) ==
    IF child = self THEN [st EXCEPT !.err = "AssertionError: Cant add self as a child"]
    ELSE IF child \notin st.children[self]
         THEN [st EXCEPT !.children[self] = @ \cup {child},
                         !.markov_blanket[self] = @ \cup {child}]
         ELSE st

\* Node.add_child on node self; st holds the four link maps
add_child(st, self, child) ==
    IF child = self THEN [st EXCEPT !.err = "AssertionError: Cant add self as a child"]
    ELSE IF child \in st.parents[self]
    THEN [st EXCEPT !.err = "ValueError: already a parent"]
    ELSE IF child \notin st.children[self]
         THEN [st EXCEPT !.children[self] = @ \cup {child},
                         !.markov_blanket[self] = @ \cup {child}]
         ELSE st

\* Node.add_parent on node self
add_parent(st, self, parent) ==
    IF parent = self THEN [st EXCEPT !.err = "AssertionError: Cant add self as a parent"]
    ELSE IF ~is_dependent(self)
    THEN [st EXCEPT !.err = "AssertionError: Cant add parents to independent distribution"]
    ELSE IF parent \in st.children[self]
    THEN [st EXCEPT !.err = "ValueError: already a child"]
    ELSE IF parent \notin st.parents[self]
         THEN [st EXCEPT !.parents[self] = @ \cup {parent},
                         !.parents_order[self] = Append(@, parent),
                         !.markov_blanket[self] = @ \cup {parent}]
         ELSE [st EXCEPT !.err = "ValueError: Parent already know"]

\* add_edge without its test that the child is registered
add_edge_child_unchecked(st, registered, parent, child) ==
    IF parent \notin Range(registered)
    THEN [st EXCEPT !.err = "ValueError: Not known parent node"]
    ELSE LET st1 == add_child(st, parent, child)
         IN  IF st1.err # "ok" THEN st1 ELSE add_parent(st1, child, parent)

\* BayesNetwork.add_edge on the link maps st of a network with these names
\* registered
add_edge(st, registered, parent, child) ==
    IF parent \notin Range(registered)
    THEN [st EXCEPT !.err = "ValueError: Not known parent node"]
    ELSE IF child \notin Range(registered)
    THEN [st EXCEPT !.err = "ValueError: Not known child node"]
    ELSE LET st1 == add_child(st, parent, child)
         IN  IF st1.err # "ok" THEN st1 ELSE add_parent(st1, child, parent)

Links == [parents |-> parents, parents_order |-> parents_order,
          children |-> children, markov_blanket |-> markov_blanket, err |-> "ok"]

NumChildLinks == Sum([k \in 1..Len(nodes) |-> Cardinality(children[nodes[k]])])

AddEdge ==
    /\ pc = "idle"
    /\ NumChildLinks < MaxEdges
    /\ \E parent \in Names, child \in Names :
         LET st == add_edge(Links, nodes, parent, child)
         IN  /\ parents' = st.parents
             /\ parents_order' = st.parents_order
             /\ children' = st.children
             /\ markov_blanket' = st.markov_blanket
             /\ err' = st.err
             /\ call' = [op |-> "add_edge", parent |-> parent, child |-> child]
    /\ pc' = "done"
    /\ UNCHANGED <<constructed, nodes, dists, state, frame>>

\* ----------------------------------------------------------------- preprocess
\* DiscreteDistribution.preprocess finding no keys left on a repeated run
discrete_preprocess_drained(ps, name) ==
    LET d == distribution[name].distribution
    IN  [ps EXCEPT !._values[name] = IF ps._is_preprocessed[name] THEN {}
                                     ELSE {d[k][1] : k \in 1..Len(d)},
                   !._is_preprocessed[name] = TRUE]

\* DiscreteDistribution.preprocess on the distribution of node name; ps holds
\* the distributions' fields and the Markov blankets
discrete_preprocess(ps, name) ==
    LET d == distribution[name].distribution
    IN  [ps EXCEPT !._values[name] = {d[k][1] : k \in 1..Len(d)},
                   !._is_preprocessed[name] = TRUE]

\* the inner function of ConditionalDistribution.preprocess: the lookup entry
\* of one parent-value tuple, and whether `assert sum(weights) == 1` passes
get_possible_values_and_weight_for_evidence(d, num, ev) ==
    LET rows == SelectSeq(d, LAMBDA x : SubSeq(x, 1, num) = ev)
    IN  [evidence |-> ev,
         values |-> [k \in 1..Len(rows) |-> SecondLast(rows[k])],
         weights |-> [k \in 1..Len(rows) |-> Last(rows[k])]]

\* the assert accepting every sum up to 1
sums_at_most_one(entry) == Sum(entry.weights) <= Den

sums_to_one(entry) == Sum(entry.weights) = Den

\* ConditionalDistribution.preprocess: every outcome of the loop over
\* list(set(...)), whose order is arbitrary: it stops at the first tuple whose
\* weights do not sum to 1, with the entries made so far kept
conditional_preprocess(ps, name) ==
    LET d == distribution[name].distribution
        num == distribution[name].num_of_dependencies
        possible_evidences == {SubSeq(d[k], 1, num) : k \in 1..Len(d)}
        entries == {get_possible_values_and_weight_for_evidence(d, num, ev) :
                        ev \in possible_evidences}
        good == {e \in entries : sums_to_one(e)}
        ps1 == [ps EXCEPT !._values[name] = {SecondLast(d[k]) : k \in 1..Len(d)}]
        put(done) == {e \in ps.conditional_distribution_lookup[name] :
                          e.evidence \notin {x.evidence : x \in done}} \cup done
    IN  IF good = entries
        THEN {[ps1 EXCEPT !.conditional_distribution_lookup[name] = put(entries),
                          !._is_preprocessed[name] = TRUE]}
        ELSE {[ps1 EXCEPT !.conditional_distribution_lookup[name] = put(done),
                          !.err = "AssertionError: sum(weights) == 1"] : done \in SUBSET good}

\* ConditionalDistribution.get_dependencies_possible_values: the sets the
\* generator yields, one per i in range(num_of_dependencies - 2)
get_dependencies_possible_values(name) ==
    LET d == distribution[name].distribution
    IN  [c \in 1..(distribution[name].num_of_dependencies - 2) |->
            {d[k][c] : k \in 1..Len(d)}]

\* the check at the end of Node.preprocess: for the first value enumerated
\* (i = 0) it evaluates self.parents[self.parents_order[0]].is_value_possible(),
\* a call without the argument is_value_possible requires
check_parents_order(name) ==
    LET yielded == get_dependencies_possible_values(name)
    IN  IF \E c \in 1..Len(yielded) : yielded[c] # {}
        THEN IF Len(parents_order[name]) = 0 THEN "IndexError" ELSE "TypeError"
        ELSE "ok"

\* Node.preprocess adding every parent of every child, the node itself too
node_preprocess_with_self(ps, name) ==
    LET co_parents == UNION {parents[c] : c \in children[name]}
        ps1 == [ps EXCEPT !.markov_blanket[name] = @ \cup co_parents]
    IN  IF ~is_dependent(name) THEN {discrete_preprocess(ps1, name)}
        ELSE {IF ps2.err # "ok" THEN ps2
              ELSE [ps2 EXCEPT !.err = check_parents_order(name)] :
                  ps2 \in conditional_preprocess(ps1, name)}

\* Node.preprocess: every outcome
node_preprocess(ps, name) ==
    LET co_parents == UNION {parents[c] : c \in children[name]} \ {name}
        ps1 == [ps EXCEPT !.markov_blanket[name] = @ \cup co_parents]
    IN  IF ~is_dependent(name) THEN {discrete_preprocess(ps1, name)}
        ELSE {IF ps2.err # "ok" THEN ps2
              ELSE [ps2 EXCEPT !.err = check_parents_order(name)] :
                  ps2 \in conditional_preprocess(ps1, name)}

\* the loop of BayesNetwork.preprocess ending after its first node
network_preprocess_first(ps, todo) == node_preprocess(ps, Head(todo))

RECURSIVE network_preprocess(_, _)
\* the loop of BayesNetwork.preprocess over the nodes still to do
network_preprocess(ps, todo) ==
    IF todo = <<>> THEN {ps}
    ELSE UNION {IF ps1.err # "ok" THEN {ps1}
                ELSE network_preprocess(ps1, Tail(todo)) :
                    ps1 \in node_preprocess(ps, Head(todo))}

\* BayesNetwork.preprocess on a network whose nodes dictionary lists the names
\* registered in this order: every outcome
preprocess(registered) ==
    LET ps0 == [markov_blanket |-> markov_blanket, _values |-> _values,
                _is_preprocessed |-> _is_preprocessed,
                conditional_distribution_lookup |-> conditional_distribution_lookup,
                err |-> "ok"]
    IN  IF registered = <<>>
        THEN {[ps0 EXCEPT !.err = "AssertionError: No nodes in graph"]}
        ELSE network_preprocess(ps0, registered)

Preprocess ==
    /\ pc = "idle"
    /\ \E ps \in preprocess(nodes) :
         /\ markov_blanket' = ps.markov_blanket
         /\ _values' = ps._values
         /\ _is_preprocessed' = ps._is_preprocessed
         /\ conditional_distribution_lookup' = ps.conditional_distribution_lookup
         /\ err' = ps.err
    /\ call' = [op |-> "preprocess"]
    /\ pc' = "done"
    /\ UNCHANGED <<constructed, nodes, parents, parents_order, children, state, frame>>

\* ------------------------------------------------------------------- sampling
\* Distribution.is_value_possible of the distribution of node name
is_value_possible(name, value) ==
    IF is_dependent(name)
    THEN IF _values[name] = {} THEN [err |-> "TypeError: argument of type NoneType", possible |-> FALSE]
         ELSE [err |-> "ok", possible |-> value \in _values[name]]
    ELSE IF ~_is_preprocessed[name]
         THEN [err |-> "AssertionError: Distribution first must be preprocessed",
               possible |-> FALSE]
         ELSE [err |-> "ok", possible |-> value \in _values[name]]

\* the assert of Node.set_evidence and Node.set_static_value
assert_value_possible(name, value) ==
    LET r == is_value_possible(name, value)
    IN  IF r.err # "ok" THEN r.err
        ELSE IF r.possible THEN "ok"
        ELSE "AssertionError: Value not found in distribution"

\* Distribution.sample: the outcomes [err, sample]; a draw gives any value of
\* non-zero weight
distribution_sample(name, observations) ==
    IF ~_is_preprocessed[name]
    THEN {[err |-> "AssertionError: Distribution first must be preprocessed",
           sample |-> None]}
    ELSE IF is_dependent(name)
    THEN LET found == {e \in conditional_distribution_lookup[name] :
                           e.evidence = observations}
         IN  IF found = {} THEN {[err |-> "KeyError", sample |-> None]}
             ELSE UNION {{[err |-> "ok", sample |-> e.values[k]] :
                             k \in {j \in 1..Len(e.values) : e.weights[j] > 0}} :
                                e \in found}
    ELSE LET d == distribution[name].distribution
         IN  {[err |-> "ok", sample |-> d[k][1]] : k \in {j \in 1..Len(d) : d[j][2] > 0}}

NoObservations == [given |-> FALSE, list |-> <<>>]

\* Node.sample testing the working value before the evidence
node_sample_static_first(name, obs, sv, ctr) ==
    IF sv[name] # None
    THEN {[err |-> "ok", sample |-> sv[name], counter |-> ctr]}
    ELSE IF evidence[name] # None
    THEN {[err |-> "ok", sample |-> evidence[name], counter |-> ctr]}
    ELSE IF is_dependent(name) /\ ~obs.given
    THEN {[err |-> "AssertionError: Observations must be given if node is dependent",
           sample |-> None, counter |-> ctr]}
    ELSE {[err |-> r.err, sample |-> r.sample,
           counter |-> IF r.err = "ok"
                       THEN [ctr EXCEPT ![name][r.sample] = @ + 1] ELSE ctr] :
              r \in distribution_sample(name, obs.list)}

\* Node.sample counting the returned value in every branch
node_sample_counting(name, obs, sv, ctr) ==
    IF evidence[name] # None
    THEN {[err |-> "ok", sample |-> evidence[name],
           counter |-> [ctr EXCEPT ![name][evidence[name]] = @ + 1]]}
    ELSE IF sv[name] # None
    THEN {[err |-> "ok", sample |-> sv[name],
           counter |-> [ctr EXCEPT ![name][sv[name]] = @ + 1]]}
    ELSE {[err |-> r.err, sample |-> r.sample,
           counter |-> IF r.err = "ok"
                       THEN [ctr EXCEPT ![name][r.sample] = @ + 1] ELSE ctr] :
              r \in distribution_sample(name, obs.list)}

\* Node.sample on node name with the working values sv and the counters ctr:
\* the outcomes [err, sample, counter]
node_sample(name, obs, sv, ctr) ==
    IF evidence[name] = None /\ sv[name] = None
    THEN IF is_dependent(name) /\ ~obs.given
         THEN {[err |-> "AssertionError: Observations must be given if node is dependent",
                sample |-> None, counter |-> ctr]}
         ELSE {[err |-> r.err, sample |-> r.sample,
                counter |-> IF r.err = "ok"
                            THEN [ctr EXCEPT ![name][r.sample] = @ + 1] ELSE ctr] :
                   r \in distribution_sample(name, obs.list)}
    ELSE IF evidence[name] # None
    THEN {[err |-> "ok", sample |-> evidence[name], counter |-> ctr]}
    ELSE {[err |-> "ok", sample |-> sv[name], counter |-> ctr]}

RECURSIVE gather_resampling(_, _, _, _)
\* the observations loop drawing a fresh value for every unclamped parent
gather_resampling(blanket, order, sv, ctr) ==
    IF order = <<>> THEN {[err |-> "ok", observations |-> <<>>, counter |-> ctr]}
    ELSE IF Head(order) \notin blanket
    THEN {[err |-> "KeyError", observations |-> <<>>, counter |-> ctr]}
    ELSE UNION {IF f.err # "ok"
                THEN {[err |-> f.err, observations |-> <<>>, counter |-> f.counter]}
                ELSE {[err |-> r.err, observations |-> <<f.sample>> \o r.observations,
                       counter |-> r.counter] :
                          r \in gather_resampling(blanket, Tail(order), sv, f.counter)} :
                    f \in node_sample(Head(order), NoObservations,
                                      [sv EXCEPT ![Head(order)] = None], ctr)}

RECURSIVE gather(_, _, _, _)
\* the loop of Node.sample_given_markov_blanket over the parents still to ask:
\* the outcomes [err, observations, counter]
gather(blanket, order, sv, ctr) ==
    IF order = <<>> THEN {[err |-> "ok", observations |-> <<>>, counter |-> ctr]}
    ELSE IF Head(order) \notin blanket
    THEN {[err |-> "KeyError", observations |-> <<>>, counter |-> ctr]}
    ELSE UNION {IF f.err # "ok"
                THEN {[err |-> f.err, observations |-> <<>>, counter |-> f.counter]}
                ELSE {[err |-> r.err, observations |-> <<f.sample>> \o r.observations,
                       counter |-> r.counter] :
                          r \in gather(blanket, Tail(order), sv, f.counter)} :
                    f \in node_sample(Head(order), NoObservations, sv, ctr)}

\* Node.sample_given_markov_blanket asking the parents last registered first
sample_given_markov_blanket_reversed(name, sv, ctr) ==
    LET order == parents_order[name]
        reversed == [k \in 1..Len(order) |-> order[Len(order) + 1 - k]]
    IN  UNION {IF g.err # "ok" THEN {[err |-> g.err, sample |-> None, counter |-> g.counter]}
               ELSE node_sample(name, [given |-> TRUE, list |-> g.observations], sv, g.counter) :
                   g \in gather(markov_blanket[name], reversed, sv, ctr)}

\* Node.sample_given_markov_blanket: the outcomes [err, sample, counter]
sample_given_markov_blanket(name, sv, ctr) ==
    UNION {IF g.err # "ok" THEN {[err |-> g.err, sample |-> None, counter |-> g.counter]}
           ELSE node_sample(name, [given |-> TRUE, list |-> g.observations], sv, g.counter) :
               g \in gather(markov_blanket[name], parents_order[name], sv, ctr)}

\* Node.get_prob: count / total per counted value, or None
get_prob(name) ==
    LET counted == {v \in DOMAIN counter[name] : counter[name][v] > 0}
        order == CHOOSE q \in [1..Cardinality(counted) -> counted] :
                     \A x, y \in 1..Cardinality(counted) : x # y => q[x] # q[y]
        total_occurrences == Sum([k \in 1..Cardinality(counted) |-> counter[name][order[k]]])
    IN  IF counted # {}
        THEN [none |-> FALSE,
              prob |-> [v \in counted |-> <<counter[name][v], total_occurrences>>]]
        ELSE [none |-> TRUE, prob |-> <<>>]

RECURSIVE set_evidences(_, _)
\* BayesNetwork._set_evidences over the entries still to set, in dict order:
\* [err, evidence]
set_evidences(evid, todo) ==
    IF todo = <<>> THEN [err |-> "ok", evidence |-> evid]
    ELSE LET name == Head(todo)[1]
             value == Head(todo)[2]
         IN  IF name \notin Range(nodes) THEN [err |-> "KeyError", evidence |-> evid]
             ELSE IF assert_value_possible(name, value) # "ok"
             THEN [err |-> assert_value_possible(name, value), evidence |-> evid]
             ELSE set_evidences([evid EXCEPT ![name] = value], Tail(todo))

\* _reset_counters leaving every counter as it is
reset_counters_kept(ctr) == ctr

\* BayesNetwork._reset_counters
reset_counters(ctr) ==
    [x \in Names |-> IF x \in Range(nodes) THEN [v \in DOMAIN ctr[x] |-> 0] ELSE ctr[x]]

\* BayesNetwork._get_nodes_without_evidence
get_nodes_without_evidence(keys) ==
    SelectSeq(nodes, LAMBDA name : name \notin keys)

\* the seeding loop ending after its first node
set_random_initial_values_first(sv, todo) ==
    IF todo = <<>> THEN {[err |-> "ok", static_value |-> sv]}
    ELSE IF _values[Head(todo)] = {}
    THEN {[err |-> "AssertionError: Distribution first must be preprocessed",
           static_value |-> sv]}
    ELSE {[err |-> "ok", static_value |-> [sv EXCEPT ![Head(todo)] = v]] :
              v \in _values[Head(todo)]}

RECURSIVE set_random_initial_values_unasserted(_, _)
\* the seeding loop leaving a node without values unseeded
set_random_initial_values_unasserted(sv, todo) ==
    IF todo = <<>> THEN {[err |-> "ok", static_value |-> sv]}
    ELSE IF _values[Head(todo)] = {}
    THEN set_random_initial_values_unasserted(sv, Tail(todo))
    ELSE UNION {set_random_initial_values_unasserted([sv EXCEPT ![Head(todo)] = v],
                                                     Tail(todo)) :
                    v \in _values[Head(todo)]}

RECURSIVE set_random_initial_values(_, _)
\* the seeding loop of gibbs over the nodes still to seed: the outcomes
\* [err, static_value]
set_random_initial_values(sv, todo) ==
    IF todo = <<>> THEN {[err |-> "ok", static_value |-> sv]}
    ELSE IF _values[Head(todo)] = {}
    THEN {[err |-> "AssertionError: Distribution first must be preprocessed",
           static_value |-> sv]}
    ELSE UNION {set_random_initial_values([sv EXCEPT ![Head(todo)] = v], Tail(todo)) :
                    v \in _values[Head(todo)]}

Keys(ev) == {ev[k][1] : k \in 1..Len(ev)}

\* the first loop of gibbs never raising
query_in_evidence_ignored(ev, query) == FALSE

\* the first loop of gibbs: some name of the query is a key of the evidence
query_in_evidence(ev, query) == \E k \in 1..Len(query) : query[k] \in Keys(ev)

\* BayesNetwork._check_query: every name of the query is a registered node
check_query(query) == \A k \in 1..Len(query) : query[k] \in Range(nodes)

\* gibbs up to the Monte Carlo loop: the outcomes
\* [err, evidence, counter, static_value, nodes_without_evidence]
gibbs_begin(ev, query) ==
    LET unchanged(e) == {[err |-> e, evidence |-> evidence, counter |-> counter,
                          static_value |-> static_value,
                          nodes_without_evidence |-> <<>>]}
        set == set_evidences(evidence, ev)
        without == get_nodes_without_evidence(Keys(ev))
    IN  IF nodes = <<>> THEN unchanged("AssertionError: No nodes added to network")
        ELSE IF query_in_evidence(ev, query)
        THEN unchanged("ValueError: in query as well as in evidence")
        ELSE IF ~check_query(query)
        THEN unchanged("AssertionError: Node not known")
        ELSE IF set.err # "ok"
        THEN {[err |-> set.err, evidence |-> set.evidence, counter |-> counter,
               static_value |-> static_value, nodes_without_evidence |-> <<>>]}
        ELSE IF without = <<>>
        THEN {[err |-> "ValueError: Every node was given evidence",
               evidence |-> set.evidence, counter |-> reset_counters(counter),
               static_value |-> static_value, nodes_without_evidence |-> without]}
        ELSE {[err |-> seeded.err, evidence |-> set.evidence,
               counter |-> reset_counters(counter),
               static_value |-> seeded.static_value,
               nodes_without_evidence |-> without] :
                  seeded \in set_random_initial_values(static_value, without)}

\* a name no node of the network has, and a value for it
Unknown == "Z"
UnknownValue == "z0"

\* the evidence entries of a construction: a name with one of its node's
\* values, a conditional node's name with a value its table does not list,
\* or the unknown name
EvidenceEntries(made) ==
    UNION {{<<name, SecondLast(row)>> : row \in Range(made[name].distribution)} :
               name \in {x \in DOMAIN made : made[x].kind = "conditional"}}
    \cup UNION {{<<name, row[1]>> : row \in Range(made[name].distribution)} :
               name \in {x \in DOMAIN made : made[x].kind = "discrete"}}
    \cup {<<name, UnknownValue>> : name \in {x \in DOMAIN made : made[x].kind = "conditional"}}
    \cup {<<Unknown, UnknownValue>>}

\* the evidence dictionaries gibbs is called with, as lists in dict order
EvidenceInputsOf ==
    [c \in DOMAIN Constructions |->
        {ev \in SeqsOver(EvidenceEntries(Constructions[c]), MaxEvidence) :
            \A j, k \in 1..Len(ev) : j # k => ev[j][1] # ev[k][1]}]

EvidenceInputs == EvidenceInputsOf[constructed]

\* the queries gibbs is called with: no name or one name
QueryInputs == {<<>>} \cup {<<name>> : name \in Names \cup {Unknown}}

\* the evidence dictionary as a function
Dict(ev) == [name \in Keys(ev) |-> ev[CHOOSE k \in 1..Len(ev) : ev[k][1] = name][2]]

GibbsCall ==
    /\ pc = "idle"
    /\ \E ev \in EvidenceInputs, query \in QueryInputs :
         \E o \in gibbs_begin(ev, query) :
            /\ evidence' = o.evidence
            /\ counter' = o.counter
            /\ static_value' = o.static_value
            /\ err' = o.err
            /\ nodes_without_evidence' = o.nodes_without_evidence
            /\ IF o.err = "ok"
               THEN /\ pc' = "loop"
                    /\ \E n \in 0..MaxIter :
                          call' = [op |-> "gibbs",
                                   evidence |-> Dict(ev),
                                   query |-> query, n |-> n]
               ELSE /\ pc' = "done"
                    /\ call' = [op |-> "gibbs"]
    /\ i' = 0
    /\ node' = None
    /\ results' = <<>>
    /\ UNCHANGED <<constructed, structure, dists>>

\* one iteration of the Monte Carlo loop
GibbsIter ==
    /\ pc = "loop"
    /\ i < call.n
    /\ \E k \in 1..Len(nodes_without_evidence) :
         LET chosen == nodes_without_evidence[k]
             non_static == [static_value EXCEPT ![chosen] = None]
         IN  \E r \in sample_given_markov_blanket(chosen, non_static, counter) :
                LET set == IF r.err # "ok" THEN r.err
                           ELSE assert_value_possible(chosen, r.sample)
                IN  /\ node' = chosen
                    /\ counter' = r.counter
                    /\ err' = set
                    /\ IF set = "ok"
                       THEN /\ static_value' = [non_static EXCEPT ![chosen] = r.sample]
                            /\ pc' = "loop"
                            /\ i' = i + 1
                       ELSE /\ static_value' = non_static
                            /\ pc' = "done"
                            /\ i' = i
    /\ UNCHANGED <<constructed, structure, dists, evidence, call,
                   nodes_without_evidence, results>>

\* the end of gibbs taking each queried node out of self.nodes
\* (self.nodes.pop(node_name).get_prob())
GibbsReturn_popping ==
    /\ pc = "loop"
    /\ i = call.n
    /\ results' = [name \in Range(call.query) |-> get_prob(name)]
    /\ nodes' = SelectSeq(nodes, LAMBDA name : name \notin Range(call.query))
    /\ pc' = "done"
    /\ UNCHANGED <<constructed, links, dists, state, call, err, i,
                   nodes_without_evidence, node>>

\* the end of gibbs: the results for the query
GibbsReturn ==
    /\ pc = "loop"
    /\ i = call.n
    /\ results' = [name \in Range(call.query) |-> get_prob(name)]
    /\ pc' = "done"
    /\ UNCHANGED <<constructed, structure, dists, state, call, err, i,
                   nodes_without_evidence, node>>

\* the value Node.sample returns for a node that draws nothing: the evidence
\* if set, else the working value
current_value(name) ==
    IF evidence[name] # None THEN evidence[name] ELSE static_value[name]

\* gibbs passed its validation and seeding: the loop runs, has ended or raised
Entered == pc \in {"loop", "done"} /\ call.op = "gibbs" /\ "n" \in DOMAIN call

\* gibbs has returned its results
Returned == pc = "done" /\ Entered /\ err = "ok"

\* the networks the sampling is explored on: the nodes constructed, the list
\* given to add_nodes and the add_edge calls made, in order
Assemblies == {
    [made |-> "causes", list |-> <<"A", "B">>, edges |-> <<>>],
    [made |-> "chain", list |-> <<"A", "T">>, edges |-> << <<"A", "T">> >>],
    [made |-> "chain", list |-> <<"A", "T">>, edges |-> <<>>],
    [made |-> "bad", list |-> <<"A", "T">>, edges |-> << <<"A", "T">> >>],
    [made |-> "collider", list |-> <<"A", "B", "H">>,
     edges |-> << <<"A", "H">>, <<"B", "H">> >>],
    [made |-> "collider", list |-> <<"A", "B", "H">>,
     edges |-> << <<"B", "H">>, <<"A", "H">> >>] }

RECURSIVE add_edges(_, _, _)
\* the add_edge calls of an assembly, one after the other
add_edges(st, registered, edges) ==
    IF edges = <<>> THEN st
    ELSE add_edges(add_edge([st EXCEPT !.err = "ok"], registered,
                            Head(edges)[1], Head(edges)[2]),
                   registered, Tail(edges))

\* a network assembled by add_nodes and add_edge, not yet preprocessed
InitGibbs ==
    \E a \in Assemblies :
        /\ constructed = a.made
        /\ nodes = add_nodes(<<>>, a.list).nodes
        /\ LET st == add_edges([parents |-> [x \in Names |-> {}],
                                parents_order |-> [x \in Names |-> <<>>],
                                children |-> [x \in Names |-> {}],
                                markov_blanket |-> [x \in Names |-> {}],
                                err |-> "ok"], nodes, a.edges)
           IN  /\ parents = st.parents
               /\ parents_order = st.parents_order
               /\ children = st.children
               /\ markov_blanket = st.markov_blanket
        /\ _values = [x \in Names |-> {}]
        /\ _is_preprocessed = [x \in Names |-> FALSE]
        /\ conditional_distribution_lookup = [x \in Names |-> {}]
        /\ counter = [x \in Names |-> [v \in Labels(x) |-> 0]]
        /\ evidence = [x \in Names |-> None]
        /\ static_value = [x \in Names |-> None]
        /\ pc = "idle"
        /\ call = NoCall
        /\ err = "ok"
        /\ i = 0
        /\ nodes_without_evidence = <<>>
        /\ node = None
        /\ results = <<>>

\* network assembly and preprocessing, from an empty network
Next == AddNodes \/ AddEdge \/ Preprocess \/ Continue

Spec == Init /\ [][Next]_vars

\* preprocessing and inference on an assembled network
NextGibbs == Preprocess \/ GibbsCall \/ GibbsIter \/ GibbsReturn \/ Continue

SpecGibbs == InitGibbs /\ [][NextGibbs]_vars

\* ===================================================================== claims
\* ------------------------------------------------------------------------ C1
\* C1: once add_edge(p, c) has succeeded (p is then a parent of c, and only
\* then), a call add_edge(c, p) raises, and it leaves the parents, the parent
\* order, the children and the Markov blanket of every node as they were.
C1_ReverseEdgeFails ==
    [][(pc = "idle" /\ call'.op = "add_edge"
            /\ call'.child \in parents[call'.parent])
        => (err' # "ok" /\ UNCHANGED links)]_vars

\* add_edge(c, p) has just raised, p being a parent of c
C1_Witness ==
    /\ pc = "done"
    /\ call.op = "add_edge"
    /\ call.child \in parents[call.parent]
    /\ err = "ValueError: already a parent"

\* ------------------------------------------------------------------------ C2
\* C2: after any add_nodes and add_edge calls, failed ones included, p is
\* among the parents of c exactly when c is among the children of p.
C2_LinksConsistent ==
    \A p \in Names, c \in Names : p \in parents[c] <=> c \in children[p]

\* ----------------------------------------------------------------------- C10
\* C10: BayesNetwork.preprocess() raises whenever some registered conditional
\* node x has a parent column k holding a value that is no value of the k-th
\* registered parent of x.
C10_PreprocessRejectsOrder ==
    (pc = "done" /\ call.op = "preprocess" /\ err = "ok")
        => \A n \in 1..Len(nodes) :
              LET x == nodes[n]
                  d == distribution[x].distribution
              IN  is_dependent(x) =>
                    \A k \in 1..distribution[x].num_of_dependencies :
                        k <= Len(parents_order[x]) =>
                            \A r \in 1..Len(d) : d[r][k] \in Labels(parents_order[x][k])

\* ------------------------------------------------------------------------ C3
\* C3: a gibbs call whose query names a key of the evidence raises, and so does
\* one whose evidence names every registered node: no such call reaches the
\* Monte Carlo loop, and when either error is raised no iteration has run.
C3_ValidationBeforeLoop ==
    /\ Entered =>
          /\ Range(call.query) \cap DOMAIN call.evidence = {}
          /\ ~(Range(nodes) \subseteq DOMAIN call.evidence)
    /\ err \in {"ValueError: in query as well as in evidence",
                "ValueError: Every node was given evidence"}
          => (pc = "done" /\ ~Entered /\ i = 0)

\* gibbs has just raised because every registered node was named in evidence
C3_Witness ==
    /\ pc = "done"
    /\ call.op = "gibbs"
    /\ err = "ValueError: Every node was given evidence"
    /\ i = 0

\* ------------------------------------------------------------------------ C4
\* C4: a gibbs call naming an unknown node in the query or in the evidence
\* raises with the evidence, the working value and the counter of every node
\* as they were before the call.
C4_UnknownNameChangesNothing ==
    [][(pc = "idle" /\ call'.op = "gibbs"
            /\ err' \in {"KeyError", "AssertionError: Node not known"})
        => UNCHANGED state]_vars

\* ------------------------------------------------------------------------ C5
\* C5: a gibbs call raising because no node is left without evidence leaves
\* the evidence and the counter of every node as they were before the call.
C5_EmptyUChangesNothing ==
    [][(pc = "idle" /\ call'.op = "gibbs"
            /\ err' = "ValueError: Every node was given evidence")
        => (evidence' = evidence /\ counter' = counter)]_vars

\* ------------------------------------------------------------------------ C6
\* C6: in every gibbs run no node of nodes_without_evidence is clamped, and a
\* node is clamped only if the evidence of that run names it.
C6_OnlyNamedNodesClamped ==
    Entered =>
        /\ \A k \in 1..Len(nodes_without_evidence) :
              evidence[nodes_without_evidence[k]] = None
        /\ \A x \in Range(nodes) :
              evidence[x] # None => x \in DOMAIN call.evidence

\* ------------------------------------------------------------------------ C7
\* C7: when gibbs returns, the counts of all nodes together equal n.
C7_CountsSumToN ==
    Returned =>
        Sum([k \in 1..Len(nodes) |->
                LET c == counter[nodes[k]]
                    q == CHOOSE q \in [1..Cardinality(DOMAIN c) -> DOMAIN c] :
                             \A x, y \in DOMAIN q : x # y => q[x] # q[y]
                IN  Sum([m \in DOMAIN q |-> c[q[m]]])]) = call.n

\* ------------------------------------------------------------------------ C8
\* C8: a gibbs call with n = 0 that passes validation returns None for every
\* name of the query, whatever earlier calls counted.
C8_ZeroIterationsReturnNone ==
    (Returned /\ call.n = 0) =>
        \A name \in Range(call.query) : results[name].none

\* gibbs with n = 0 has returned None for its query, after an earlier call
\* that left a clamp on a node this call does not name
C8_Witness ==
    /\ Returned
    /\ call.n = 0
    /\ call.query # <<>>
    /\ \A name \in Range(call.query) : results[name].none
    /\ \E x \in Range(nodes) : evidence[x] # None /\ x \notin DOMAIN call.evidence

\* ------------------------------------------------------------------------ C9
\* C9: during a gibbs run and at its return every node named in the evidence
\* holds the supplied value as its clamp, is not among the nodes chosen for
\* resampling, and has an empty counter.
C9_EvidenceNodesFixed ==
    Entered =>
        \A name \in DOMAIN call.evidence :
            /\ evidence[name] = call.evidence[name]
            /\ name \notin Range(nodes_without_evidence)
            /\ \A v \in DOMAIN counter[name] : counter[name][v] = 0

\* a run with a clamped parent has counted a sample of its child
C9_Witness ==
    /\ Returned
    /\ i >= 1
    /\ \E c \in Range(nodes_without_evidence) :
          /\ \E p \in parents[c] : p \in DOMAIN call.evidence
          /\ \E v \in DOMAIN counter[c] : counter[c][v] > 0

\* ----------------------------------------------------------------------- C11
\* C11: when every registered conditional node has as many registered parents
\* as its table has parent columns, in column order and with every column
\* value legal for its parent (the row groups summing to 1, as in main.py),
\* BayesNetwork.preprocess() completes without raising.
C11_WellFormedPreprocesses ==
    (/\ pc = "done"
     /\ call.op = "preprocess"
     /\ nodes # <<>>
     /\ \A n \in 1..Len(nodes) :
           LET x == nodes[n]
               d == distribution[x].distribution
               num == distribution[x].num_of_dependencies
           IN  is_dependent(x) =>
                 /\ Len(parents_order[x]) = num
                 /\ \A k \in 1..num : \A r \in 1..Len(d) :
                       d[r][k] \in Labels(parents_order[x][k])
                 /\ \A r \in 1..Len(d) :
                       sums_to_one(get_possible_values_and_weight_for_evidence(
                                       d, num, SubSeq(d[r], 1, num))))
        => err = "ok"

\* ----------------------------------------------------------------------- C12
\* C12: after BayesNetwork.preprocess() has completed, the Markov blanket of
\* every registered node is exactly its parents, its children and the other
\* parents of its children, and does not contain the node itself.
C12_MarkovBlanketExact ==
    (pc = "done" /\ call.op = "preprocess" /\ err = "ok") =>
        \A n \in 1..Len(nodes) :
            LET x == nodes[n]
            IN  /\ markov_blanket[x] =
                      parents[x] \cup children[x]
                        \cup (UNION {parents[c] : c \in children[x]} \ {x})
                /\ x \notin markov_blanket[x]

\* preprocess() has completed and put a co-parent, neither parent nor child,
\* in the Markov blanket of a node
C12_Witness ==
    /\ pc = "done"
    /\ call.op = "preprocess"
    /\ err = "ok"
    /\ \E n \in 1..Len(nodes) :
          \E y \in markov_blanket[nodes[n]] :
              y \notin parents[nodes[n]] \cup children[nodes[n]]

\* ----------------------------------------------------------------------- C13
\* C13: when the node chosen by an iteration of the loop is conditional and
\* the tuple of its registered parents' current values, in registered order,
\* is no parent-value tuple of its table, the iteration ends gibbs with a
\* KeyError and leaves every counter as the earlier iterations left it.
C13_MissingTupleRaises ==
    [][(/\ pc = "loop"
        /\ (i' = i + 1 \/ err' # "ok")
        /\ is_dependent(node')
        /\ LET d == distribution[node'].distribution
               num == distribution[node'].num_of_dependencies
               order == parents_order[node']
           IN  [k \in 1..Len(order) |-> current_value(order[k])]
                   \notin {SubSeq(d[r], 1, num) : r \in 1..Len(d)})
        => (err' = "KeyError" /\ pc' = "done" /\ i' = i /\ counter' = counter)]_vars

\* ----------------------------------------------------------------------- C14
\* C14: with the same nodes and the same edges, preprocess() completes for one
\* registration order of the nodes exactly if it completes for every other,
\* and the Markov blankets it leaves when it completes are the same.
C14_RegistrationOrderIrrelevant ==
    pc = "idle" =>
        LET completes(outcomes) == {o.err = "ok" : o \in outcomes}
            blankets(outcomes) ==
                {o.markov_blanket : o \in {u \in outcomes : u.err = "ok"}}
            here == preprocess(nodes)
            completes_here == completes(here)
            blankets_here == blankets(here)
        IN  \A other \in {q \in [1..Len(nodes) -> Range(nodes)] :
                             \A x, y \in 1..Len(nodes) : x # y => q[x] # q[y]} :
                LET there == preprocess(other)
                IN  /\ completes(there) = completes_here
                    /\ blankets(there) = blankets_here

\* preprocess() has completed on a network whose first registered node is a
\* conditional node with two parents, registered after it
C14_Witness ==
    /\ pc = "done"
    /\ call.op = "preprocess"
    /\ err = "ok"
    /\ Len(nodes) = 3
    /\ Len(parents_order[nodes[1]]) = 2

\* ----------------------------------------------------------------------- C15
\* C15: once preprocess() has completed, calling it again leaves the Markov
\* blanket of every node and the legal values and the lookup table of every
\* distribution as the first call left them.
C15_PreprocessIdempotent ==
    (pc = "done" /\ call.op = "preprocess" /\ err = "ok") =>
        \A again \in preprocess(nodes) :
            /\ again.markov_blanket = markov_blanket
            /\ again._values = _values
            /\ again.conditional_distribution_lookup = conditional_distribution_lookup

\* preprocess() has completed on a network with a conditional node that has a
\* filled lookup table and a parent
C15_Witness ==
    /\ pc = "done"
    /\ call.op = "preprocess"
    /\ err = "ok"
    /\ \E n \in 1..Len(nodes) :
          /\ conditional_distribution_lookup[nodes[n]] # {}
          /\ parents[nodes[n]] # {}

\* ----------------------------------------------------------------------- C16
\* C16: no step of a gibbs call, returning or raising, changes the nodes
\* registered in the network or the parents, the parent order, the children
\* or the Markov blanket of a node, nor the fields of a distribution.
C16_GibbsKeepsStructure ==
    [][(pc \in {"idle", "loop"} /\ call'.op = "gibbs")
        => UNCHANGED <<structure, dists>>]_vars

\* gibbs has returned results for its query after an iteration on a network
\* with an edge
C16_Witness ==
    /\ Returned
    /\ i >= 1
    /\ call.query # <<>>
    /\ \E n \in 1..Len(nodes) : parents[nodes[n]] # {}
    /\ \E n \in 1..Len(nodes) : static_value[nodes[n]] # None

\* ----------------------------------------------------------------------- C17
\* C17: add_edge(parent, child) raises when parent or child is not registered
\* in the network, and leaves the parents, the parent order, the children and
\* the Markov blanket of every node as they were.
C17_UnregisteredEdgeFails ==
    [][(/\ pc = "idle"
        /\ call'.op = "add_edge"
        /\ (call'.parent \notin Range(nodes) \/ call'.child \notin Range(nodes)))
        => (err' # "ok" /\ UNCHANGED links)]_vars

\* add_edge has just raised for a registered parent and an unregistered child
C17_Witness ==
    /\ pc = "done"
    /\ call.op = "add_edge"
    /\ call.parent \in Range(nodes)
    /\ call.child \notin Range(nodes)
    /\ err = "ValueError: Not known child node"

\* ----------------------------------------------------------------------- C18
\* C18: ConditionalDistribution.preprocess() raises exactly when the weights of
\* the rows sharing some parent-value tuple do not add up to 1 (Den quarters);
\* when it completes, the lookup holds one entry for each distinct
\* parent-value tuple of the table and no other.
C18_SumCheckExact ==
    \A x \in {y \in Names : is_dependent(y)} :
        LET d == distribution[x].distribution
            num == distribution[x].num_of_dependencies
            tuples == {SubSeq(d[r], 1, num) : r \in 1..Len(d)}
            rows(t) == SelectSeq(d, LAMBDA row : SubSeq(row, 1, num) = t)
            total(t) == Sum([k \in 1..Len(rows(t)) |-> rows(t)[k][num + 2]])
            ps0 == [markov_blanket |-> markov_blanket, _values |-> _values,
                    _is_preprocessed |-> _is_preprocessed,
                    conditional_distribution_lookup |-> conditional_distribution_lookup,
                    err |-> "ok"]
        IN  \A o \in conditional_preprocess(ps0, x) :
                /\ o.err # "ok" <=> \E t \in tuples : total(t) # Den
                /\ o.err = "ok" =>
                      /\ {e.evidence : e \in o.conditional_distribution_lookup[x]} = tuples
                      /\ Cardinality(o.conditional_distribution_lookup[x])
                             = Cardinality(tuples)

\* preprocess() has just raised on the sum check of a conditional table, with
\* the entries of some tuples already in the lookup
C18_Witness ==
    /\ pc = "done"
    /\ call.op = "preprocess"
    /\ err = "AssertionError: sum(weights) == 1"
    /\ \E n \in 1..Len(nodes) :
          /\ conditional_distribution_lookup[nodes[n]] # {}
          /\ ~_is_preprocessed[nodes[n]]

\* ----------------------------------------------------------------------- C19
\* C19: Node.sample returns the evidence if it is set, else the working value
\* if it is set, else a value drawn from the distribution; the counters change
\* in the third case only, where the count of the drawn value of that node
\* rises by one and nothing else changes.  Checked for every registered node,
\* with the working values as they are and with one node of
\* nodes_without_evidence set non-static, with and without observations.
C19_SampleCases ==
    \A n \in 1..Len(nodes) :
        \A sv \in {static_value} \cup
                  {[static_value EXCEPT ![nodes_without_evidence[k]] = None] :
                       k \in 1..Len(nodes_without_evidence)} :
            \A obs \in {NoObservations,
                        [given |-> TRUE,
                         list |-> [k \in 1..Len(parents_order[nodes[n]]) |->
                                      current_value(parents_order[nodes[n]][k])]]} :
                \A r \in node_sample(nodes[n], obs, sv, counter) :
                    LET x == nodes[n]
                    IN  IF evidence[x] # None
                        THEN r.err = "ok" /\ r.sample = evidence[x] /\ r.counter = counter
                        ELSE IF sv[x] # None
                        THEN r.err = "ok" /\ r.sample = sv[x] /\ r.counter = counter
                        ELSE IF r.err = "ok"
                        THEN /\ r.sample \in Labels(x)
                             /\ r.counter[x][r.sample] = counter[x][r.sample] + 1
                             /\ \A y \in Names : \A v \in DOMAIN counter[y] :
                                   <<y, v>> # <<x, r.sample>>
                                       => r.counter[y][v] = counter[y][v]
                        ELSE r.counter = counter

\* an iteration has drawn a value for its unclamped node and counted it
C19_Witness ==
    /\ pc = "loop"
    /\ node # None
    /\ evidence[node] = None
    /\ counter[node][static_value[node]] > 0
    /\ \E n \in 1..Len(nodes) : evidence[nodes[n]] # None

C21_IterationTouchesChosenOnly ==
    [][(pc = "loop" /\ (i' = i + 1 \/ err' # "ok"))
        => /\ evidence' = evidence
           /\ \A x \in Names \ {node'} :
                 /\ static_value'[x] = static_value[x]
                 /\ counter'[x] = counter[x]]_vars

\* an iteration has drawn and counted a value for a node whose parent holds a
\* working value and no evidence
C21_Witness ==
    /\ pc = "loop"
    /\ i >= 1
    /\ node # None
    /\ evidence[node] = None
    /\ \E v \in DOMAIN counter[node] : counter[node][v] > 0
    /\ \E p \in parents[node] : evidence[p] = None /\ static_value[p] # None

\* ----------------------------------------------------------------------- C22
\* C22: from the end of the seeding to the return of gibbs, between iterations
\* every registered node has a current value (its evidence, else its working
\* value) that is a legal value of its distribution, and no value an iteration
\* can obtain for a node of nodes_without_evidence is refused by
\* set_static_value.
C22_CurrentValuesLegal ==
    (pc = "loop" \/ Returned) =>
        /\ \A n \in 1..Len(nodes) :
              /\ current_value(nodes[n]) # None
              /\ current_value(nodes[n]) \in _values[nodes[n]]
              /\ current_value(nodes[n]) \in Labels(nodes[n])
        /\ \A k \in 1..Len(nodes_without_evidence) :
              LET chosen == nodes_without_evidence[k]
              IN  \A r \in sample_given_markov_blanket(
                               chosen, [static_value EXCEPT ![chosen] = None], counter) :
                      r.err = "ok" => assert_value_possible(chosen, r.sample) = "ok"

\* the second iteration of a run has ended with three registered nodes, one
\* clamped by evidence and the others holding working values
C22_Witness ==
    /\ pc = "loop"
    /\ i = 2
    /\ Len(nodes) = 3
    /\ \E n \in 1..Len(nodes) : evidence[nodes[n]] # None
    /\ \E n \in 1..Len(nodes) :
          evidence[nodes[n]] = None /\ static_value[nodes[n]] # None

\* C23: gibbs called on a non-empty network none of whose nodes preprocess()
\* has ever reached ends with an error before the first iteration of the
\* loop, whatever the evidence and the query: an evidence entry fails in
\* set_evidence, and without evidence the seeding fails in get_random_value.
C23_UnpreprocessedGibbsFails ==
    [][(/\ pc = "idle"
        /\ call'.op = "gibbs"
        /\ nodes # <<>>
        /\ \A n \in 1..Len(nodes) :
              _values[nodes[n]] = {} /\ ~_is_preprocessed[nodes[n]])
        => /\ err' # "ok"
           /\ pc' = "done"
           /\ i' = 0
           /\ results' = <<>>]_vars

\* a gibbs call on a network of three nodes never preprocessed, ended by the
\* assert on the missing values
C23_Witness ==
    /\ pc = "done"
    /\ call.op = "gibbs"
    /\ err = "AssertionError: Distribution first must be preprocessed"
    /\ Len(nodes) = 3
    /\ \A n \in 1..Len(nodes) :
          /\ _values[nodes[n]] = {}
          /\ ~_is_preprocessed[nodes[n]]
          /\ evidence[nodes[n]] = None

====
